---- MODULE Spec2Model ----
(***************************************************************************)
(* The Servo display list -> WebRender display list converter of           *)
(* components/layout/display_list/webrender_helpers.rs as a state machine. *)
(*                                                                         *)
(* One behaviour is one call of DisplayList::convert_to_webrender: Init    *)
(* chooses the immutable inputs (the item list, the clip/scroll node array *)
(* and the build profile), Setup is lines 52-63, ConvertNextItem is one    *)
(* iteration of the loop of lines 65-72 (the whole of                      *)
(* DisplayItem::convert_to_webrender for that item), ReturnBuilder is line *)
(* 73.  A panic (unreachable!, debug_assert!) ends the behaviour in        *)
(* outcome = "panicked": nothing is returned.                              *)
(***************************************************************************)
EXTENDS Integers, Sequences, FiniteSets, TLC

(***************************************************************************)
(* Bounds of the model.                                                    *)
(***************************************************************************)
\* longest item list of the general specification
MaxLen == 3
\* largest clip/scroll node array (index 0 is the root)
MaxNodes == 2
\* longest list of the stacking-context specification
MaxStackLen == 4
\* longest list of the single-context-run specification
MaxRunLen == 6
\* longest list of the image specification
MaxImageLen == 2
\* longest list of the all-variants specification
MaxKindsLen == 2
\* most word slices of a text run, and most glyphs of a slice
MaxSlices == 2
MaxGlyphs == 1
\* longest list of the resolution-table specification
MaxTableLen == 4
\* longest list of the node-chain specification
MaxChainLen == 4
\* longest list of the specification of items that paint nothing
MaxQuietLen == 2

(***************************************************************************)
(* Option<T>: None is the empty sequence, Some(x) the one-element one.     *)
(***************************************************************************)
None == <<>>
Some(x) == <<x>>
IsSome(o) == Len(o) = 1
Unwrap(o) == o[1]

(***************************************************************************)
(* Inputs.  A display item is its variant (kind), the base record's        *)
(* clipping_and_scrolling indices, and the fields of the variants the      *)
(* converter reads; fields a variant does not have hold a default.         *)
(***************************************************************************)
PaintKinds ==
    {"SolidColor", "Text", "Image", "Border", "Gradient", "RadialGradient",
     "Line", "BoxShadow", "PushTextShadow", "PopAllTextShadows", "Iframe"}

BaseItem(kind, scrolling, clipping) ==
    [kind |-> kind, scrolling |-> scrolling, clipping |-> clipping,
     node_index |-> 0, context_type |-> "Real",
     slices |-> <<>>, extra_word_spacing |-> 0,
     baseline_origin |-> [x |-> 0, y |-> 0],
     key |-> None, width |-> 0, height |-> 0,
     details |-> "Normal"]

\* gfx::display_list::ClipScrollNode: parent_index, node_type, id
Node(parent, type, id) == [parent_index |-> parent, node_type |-> type, id |-> id]

NodeTypes == {"Clip", "ScrollFrame", "StickyFrame"}

VARIABLES
    list,                          \* self.list: the display items, in order
    clip_scroll_nodes,             \* self.clip_scroll_nodes (1-based: node index i is entry i+1)
    debug_assertions,              \* whether debug_assert! is compiled in
    builder,                       \* the DisplayListBuilder (the sink)
    clip_ids,                      \* Vec<Option<ClipId>> (1-based like the node array)
    current_clip_and_scroll_info,  \* the tracked active context
    next_item,                     \* position of the for loop (1-based index of the next item)
    visited,                       \* the indices of the items the loop has handed to the item converter
    before,                        \* for each of them, the traversal state it was handed
    outcome,                       \* "start", "running", "returned", "panicked"
    panic                          \* the message of the panic, "" when there is none

vars == <<list, clip_scroll_nodes, debug_assertions, builder, clip_ids,
          current_clip_and_scroll_info, next_item, visited, before, outcome,
          panic>>

(***************************************************************************)
(* The sink: webrender_api::DisplayListBuilder.  It keeps a stack of       *)
(* clip-and-scroll contexts, whose top is attached to every item pushed,   *)
(* a count of open stacking contexts, and hands out clip ids.  log is the  *)
(* sequence of calls made on it; each entry records the item of the list   *)
(* being converted (0: the driver), the context on top of the stack when   *)
(* the call was made and the depth of the stack after it.                  *)
(***************************************************************************)
\* ClipAndScrollInfo { scroll_node_id, clip_node_id }
ClipAndScrollInfo_simple(scroll_id) == [scroll_node_id |-> scroll_id, clip_node_id |-> None]
ClipAndScrollInfo_new(scroll_id, clip_id) == [scroll_node_id |-> scroll_id, clip_node_id |-> Some(clip_id)]

\* ClipId::root_scroll_node(pipeline): the one id that no definition returns
root_scroll_node == 0
root_clip_and_scroll_info == ClipAndScrollInfo_simple(root_scroll_node)

NewBuilder ==
    [log |-> <<>>, clip_stack |-> <<>>, next_clip_id |-> 1,
     stacking_contexts |-> 0, gradients |-> 0]

Top(stack) == IF Len(stack) = 0 THEN None ELSE Some(stack[Len(stack)])

Call(b, op, arg, item, stack) ==
    [b EXCEPT !.log = Append(@, [op |-> op, arg |-> arg, item |-> item,
                                  context |-> Top(b.clip_stack),
                                  depth |-> Len(stack)]),
              !.clip_stack = stack]

\* an item (primitive, shadow, iframe): the stack is left alone
push_item(b, op, arg, item) == Call(b, op, arg, item, b.clip_stack)

push_clip_and_scroll_info(b, info, item) ==
    Call(b, "push_clip_and_scroll_info", info, item, Append(b.clip_stack, info))

push_clip_id(b, id, item) ==
    Call(b, "push_clip_id", ClipAndScrollInfo_simple(id), item,
         Append(b.clip_stack, ClipAndScrollInfo_simple(id)))

pop_clip_id(b, item) ==
    Call(b, "pop_clip_id", None, item,
         IF Len(b.clip_stack) = 0 THEN <<>>
         ELSE SubSeq(b.clip_stack, 1, Len(b.clip_stack) - 1))

push_stacking_context(b, context_type, item) ==
    [push_item(b, "push_stacking_context", context_type, item)
        EXCEPT !.stacking_contexts = @ + 1]

pop_stacking_context(b, item) ==
    [push_item(b, "pop_stacking_context", None, item)
        EXCEPT !.stacking_contexts = @ - 1]

\* generate_clip_id: the pre-assigned id when there is one, else a fresh one
generate_clip_id(b, id) == IF IsSome(id) THEN Unwrap(id) ELSE b.next_clip_id

define_node(b, op, id, parent, item) ==
    [push_item(b, op, [id |-> generate_clip_id(b, id), parent |-> parent], item)
        EXCEPT !.next_clip_id = IF IsSome(id) THEN @ ELSE @ + 1]

\* create_gradient / create_radial_gradient: the handle is the count of registrations
create_gradient(b, op, item) ==
    [push_item(b, op, b.gradients + 1, item) EXCEPT !.gradients = @ + 1]

(***************************************************************************)
(* DisplayItem::convert_to_webrender.  The traversal state threaded        *)
(* through it is m = [builder, clip_ids, current, panic]; a step on a      *)
(* panicked state does nothing (the unwinding runs no more of the code).   *)
(***************************************************************************)
NoPanic == ""
UnreachablePanic == "Tried to use WebRender ClipId before it was defined."
DebugAssertPanic == "debug_assert"

Panicked(m) == m.panic # NoPanic
\* mutant: the failure is swallowed and the conversion goes on
RaiseSwallowed(m, msg) == m
Raise(m, msg) == IF Panicked(m) THEN m ELSE [m EXCEPT !.panic = msg]

\* mutant: the id handed out is not the one the table holds
get_id_off_by_one(ids, index) == Unwrap(ids[index + 1]) + 1

\* the closure get_id: the entry of clip_ids at index, fatal when it is None
get_id_defined(ids, index) == IsSome(ids[index + 1])
get_id(ids, index) == Unwrap(ids[index + 1])

\* lines 106-111: the item's own context, or the panic of get_id
ItemContextDefined(ids, item) ==
    /\ get_id_defined(ids, item.scrolling)
    /\ IsSome(item.clipping) => get_id_defined(ids, Unwrap(item.clipping))

ItemContext(ids, item) ==
    IF IsSome(item.clipping)
    THEN ClipAndScrollInfo_new(get_id(ids, item.scrolling), get_id(ids, Unwrap(item.clipping)))
    ELSE ClipAndScrollInfo_simple(get_id(ids, item.scrolling))

\* mutant: the new context is stored but the sink is not told
SwitchContextStoreOnly(m, info, i) ==
    IF info # m.current THEN [m EXCEPT !.current = info] ELSE m

\* mutant: every item switches, whatever the active context
SwitchContextAlways(m, info, i) ==
    [m EXCEPT !.builder = push_clip_and_scroll_info(pop_clip_id(@, i), info, i),
              !.current = info]

\* mutant: the new context is pushed on top of the old one, which is not ended
SwitchContextPushOnly(m, info, i) ==
    IF info # m.current
    THEN [m EXCEPT !.builder = push_clip_and_scroll_info(@, info, i), !.current = info]
    ELSE m

\* mutant: the active context is ended and no new one begun
SwitchContextPopOnly(m, info, i) ==
    IF info # m.current
    THEN [m EXCEPT !.builder = pop_clip_id(@, i), !.current = info]
    ELSE m

\* mutant: whether to switch depends on the value of the backend's id
SwitchContextById(m, info, i) ==
    IF info # m.current /\ info.scroll_node_id # 1
    THEN [m EXCEPT !.builder = push_clip_and_scroll_info(pop_clip_id(@, i), info, i),
                   !.current = info]
    ELSE m

\* lines 113-117: the switch of the active context
SwitchContext(m, info, i) ==
    IF info # m.current
    THEN [m EXCEPT !.builder = push_clip_and_scroll_info(pop_clip_id(@, i), info, i),
                   !.current = info]
    ELSE m

Emit(m, op, arg, i) == [m EXCEPT !.builder = push_item(@, op, arg, i)]

\* lines 120-122
ConvertSolidColor(m, item, i) == Emit(m, "push_rect", None, i)

(***************************************************************************)
(* lines 123-160: Text.  item.slices is what                               *)
(* natural_word_slices_in_visual_order(&item.range) yields, each slice     *)
(* with the glyphs iter_glyphs_for_byte_range(&slice.range) yields.        *)
(***************************************************************************)
\* Au::to_f32_px: app units to pixels, 60 app units to the pixel
to_f32_px(au) == [num |-> au, den |-> 60]

\* mutant: the extra word spacing is never added
GlyphAdvanceNoSpacing(glyph, extra_word_spacing) == glyph.advance

\* lines 131-135
GlyphAdvance(glyph, extra_word_spacing) ==
    IF glyph.char_is_space THEN glyph.advance + extra_word_spacing ELSE glyph.advance

\* mutant: the glyph's own flag decides, not its slice's
GlyphIsEmittedByChar(slice, glyph) == ~glyph.char_is_space

\* line 136: whether the glyph yields a glyph instance
GlyphIsEmitted(slice, glyph) == ~slice.is_whitespace

\* lines 137-144
GlyphInstance(glyph, origin) ==
    LET glyph_offset == IF IsSome(glyph.offset) THEN Unwrap(glyph.offset)
                        ELSE [x |-> 0, y |-> 0]
    IN  [index |-> glyph.id,
         point |-> [x |-> to_f32_px(origin.x + glyph_offset.x),
                    y |-> to_f32_px(origin.y + glyph_offset.y)]]

\* the glyphs of the run in iteration order, each with its slice
RECURSIVE RunGlyphs(_)
RunGlyphs(slices) ==
    IF slices = <<>> THEN <<>>
    ELSE [k \in 1..Len(Head(slices).glyphs) |->
              [slice |-> Head(slices), glyph |-> Head(slices).glyphs[k]]]
         \o RunGlyphs(Tail(slices))

\* lines 127-149: the two nested loops, from the state [origin, glyphs]
RECURSIVE TextLoop(_, _, _)
TextLoop(rest, st, extra_word_spacing) ==
    IF rest = <<>> THEN st
    ELSE LET e == Head(rest)
             glyphs == IF GlyphIsEmitted(e.slice, e.glyph)
                       THEN Append(st.glyphs, GlyphInstance(e.glyph, st.origin))
                       ELSE st.glyphs
             origin == [st.origin EXCEPT !.x = @ + GlyphAdvance(e.glyph, extra_word_spacing)]
         IN  TextLoop(Tail(rest), [origin |-> origin, glyphs |-> glyphs], extra_word_spacing)

TextLayout(item) ==
    TextLoop(RunGlyphs(item.slices),
             [origin |-> item.baseline_origin, glyphs |-> <<>>],
             item.extra_word_spacing)

\* lines 151-159
ConvertText(m, item, i) ==
    LET glyphs == TextLayout(item).glyphs
    IN  IF Len(glyphs) > 0 THEN Emit(m, "push_text", glyphs, i) ELSE m

\* mutant: the height of the stretch size is not looked at
ImageIsEmittedWidthOnly(item) == IsSome(item.key) /\ item.width > 0

\* lines 161-174
ImageIsEmitted(item) == IsSome(item.key) /\ item.width > 0 /\ item.height > 0

ConvertImage(m, item, i) ==
    IF ImageIsEmitted(item) THEN Emit(m, "push_image", item.key, i) ELSE m

\* mutant: a border is emitted with no gradient registered for it
ConvertBorderUnregistered(m, item, i) ==
    Emit(m, "push_border", [details |-> item.details, gradient |-> None], i)

\* lines 175-208
ConvertBorder(m, item, i) ==
    LET registered ==
            CASE item.details = "Gradient" ->
                    [m EXCEPT !.builder = create_gradient(@, "create_gradient", i)]
              [] item.details = "RadialGradient" ->
                    [m EXCEPT !.builder = create_gradient(@, "create_radial_gradient", i)]
              [] OTHER -> m
        handle == IF item.details \in {"Gradient", "RadialGradient"}
                  THEN Some(registered.builder.gradients) ELSE None
    IN  Emit(registered, "push_border", [details |-> item.details, gradient |-> handle], i)

\* lines 209-231
ConvertGradient(m, item, i) ==
    LET registered == [m EXCEPT !.builder = create_gradient(@, "create_gradient", i)]
    IN  Emit(registered, "push_gradient", registered.builder.gradients, i)

ConvertRadialGradient(m, item, i) ==
    LET registered == [m EXCEPT !.builder = create_gradient(@, "create_radial_gradient", i)]
    IN  Emit(registered, "push_radial_gradient", registered.builder.gradients, i)

\* mutant: the kind of the stacking context is not looked at in any build
ConvertPushUnchecked(m, item, i, dbg) ==
    [m EXCEPT !.builder = push_stacking_context(@, item.context_type, i)]

\* lines 270-290
ConvertPushStackingContext(m, item, i, dbg) ==
    IF dbg /\ item.context_type # "Real"
    THEN Raise(m, DebugAssertPanic)
    ELSE [m EXCEPT !.builder = push_stacking_context(@, item.context_type, i)]

\* mutant: the pop is dropped
ConvertPopDropped(m, item, i) == m

\* mutant: a pop with no stacking context open is a failure
ConvertPopChecked(m, item, i) ==
    IF m.builder.stacking_contexts <= 0
    THEN Raise(m, DebugAssertPanic)
    ELSE [m EXCEPT !.builder = pop_stacking_context(@, i)]

\* line 291
ConvertPopStackingContext(m, item, i) ==
    [m EXCEPT !.builder = pop_stacking_context(@, i)]

\* mutant: the node is defined in the sink but its id is not stored in the table
ConvertDefineNotStored(m, item, i, nodes, dbg) ==
    LET node == nodes[item.node_index + 1]
    IN  IF ~get_id_defined(m.clip_ids, node.parent_index)
        THEN Raise(m, UnreachablePanic)
        ELSE [m EXCEPT !.builder = define_node(@, "define_clip_with_parent", node.id,
                                               Some(get_id(m.clip_ids, node.parent_index)), i)]

\* mutant: the context opened around a sticky-frame definition is left open
ConvertDefineStickyLeftOpen(m, item, i, nodes, dbg) ==
    LET node == nodes[item.node_index + 1]
    IN  IF ~get_id_defined(m.clip_ids, node.parent_index)
        THEN Raise(m, UnreachablePanic)
        ELSE
        LET parent_id == get_id(m.clip_ids, node.parent_index)
            webrender_id == generate_clip_id(m.builder, node.id)
            defined ==
                CASE node.node_type = "Clip" ->
                        define_node(m.builder, "define_clip_with_parent", node.id, Some(parent_id), i)
                  [] node.node_type = "ScrollFrame" ->
                        define_node(m.builder, "define_scroll_frame_with_parent", node.id, Some(parent_id), i)
                  [] node.node_type = "StickyFrame" ->
                        define_node(push_clip_id(m.builder, parent_id, i),
                                    "define_sticky_frame", node.id, None, i)
        IN  [m EXCEPT !.builder = defined,
                      !.clip_ids[item.node_index + 1] = Some(webrender_id)]

\* mutant: the id is stored only in an entry that is still empty
ConvertDefineStoredOnce(m, item, i, nodes, dbg) ==
    LET node == nodes[item.node_index + 1]
    IN  IF ~get_id_defined(m.clip_ids, node.parent_index)
        THEN Raise(m, UnreachablePanic)
        ELSE
        LET parent_id == get_id(m.clip_ids, node.parent_index)
            webrender_id == generate_clip_id(m.builder, node.id)
            op == IF node.node_type = "ScrollFrame" THEN "define_scroll_frame_with_parent"
                  ELSE "define_clip_with_parent"
            defined == define_node(m.builder, op, node.id, Some(parent_id), i)
        IN  IF IsSome(m.clip_ids[item.node_index + 1])
            THEN [m EXCEPT !.builder = defined]
            ELSE [m EXCEPT !.builder = defined,
                           !.clip_ids[item.node_index + 1] = Some(webrender_id)]

\* lines 292-333
ConvertDefineClipScrollNode(m, item, i, nodes, dbg) ==
    LET node == nodes[item.node_index + 1]
    IN  IF ~get_id_defined(m.clip_ids, node.parent_index)
        THEN Raise(m, UnreachablePanic)
        ELSE
        LET parent_id == get_id(m.clip_ids, node.parent_index)
            webrender_id == generate_clip_id(m.builder, node.id)
            defined ==
                CASE node.node_type = "Clip" ->
                        define_node(m.builder, "define_clip_with_parent", node.id, Some(parent_id), i)
                  [] node.node_type = "ScrollFrame" ->
                        define_node(m.builder, "define_scroll_frame_with_parent", node.id, Some(parent_id), i)
                  [] node.node_type = "StickyFrame" ->
                        pop_clip_id(
                            define_node(push_clip_id(m.builder, parent_id, i),
                                        "define_sticky_frame", node.id, None, i),
                            i)
        IN  IF dbg /\ ~(node.id = None \/ node.id = Some(webrender_id))
            THEN Raise([m EXCEPT !.builder = defined], DebugAssertPanic)
            ELSE [m EXCEPT !.builder = defined,
                           !.clip_ids[item.node_index + 1] = Some(webrender_id)]

\* lines 119-334: the match on the variant
Dispatch(m, item, i, nodes, dbg) ==
    CASE item.kind = "SolidColor" -> ConvertSolidColor(m, item, i)
      [] item.kind = "Text" -> ConvertText(m, item, i)
      [] item.kind = "Image" -> ConvertImage(m, item, i)
      [] item.kind = "Border" -> ConvertBorder(m, item, i)
      [] item.kind = "Gradient" -> ConvertGradient(m, item, i)
      [] item.kind = "RadialGradient" -> ConvertRadialGradient(m, item, i)
      [] item.kind = "Line" -> Emit(m, "push_line", None, i)
      [] item.kind = "BoxShadow" -> Emit(m, "push_box_shadow", None, i)
      [] item.kind = "PushTextShadow" -> Emit(m, "push_shadow", None, i)
      [] item.kind = "PopAllTextShadows" -> Emit(m, "pop_all_shadows", None, i)
      [] item.kind = "Iframe" -> Emit(m, "push_iframe", None, i)
      [] item.kind = "PushStackingContext" -> ConvertPushStackingContext(m, item, i, dbg)
      [] item.kind = "PopStackingContext" -> ConvertPopStackingContext(m, item, i)
      [] item.kind = "DefineClipScrollNode" -> ConvertDefineClipScrollNode(m, item, i, nodes, dbg)

\* mutant: only the items that paint resolve their context and switch to it
ConvertItemSwitchesToPaint(m, item, i, nodes, dbg) ==
    IF item.kind \in {"DefineClipScrollNode", "PushStackingContext", "PopStackingContext",
                      "PopAllTextShadows"}
          \/ (item.kind = "Text" /\ Len(TextLayout(item).glyphs) = 0)
          \/ (item.kind = "Image" /\ ~ImageIsEmitted(item))
    THEN Dispatch(m, item, i, nodes, dbg)
    ELSE IF ~ItemContextDefined(m.clip_ids, item)
    THEN Raise(m, UnreachablePanic)
    ELSE Dispatch(SwitchContext(m, ItemContext(m.clip_ids, item), i), item, i, nodes, dbg)

\* lines 92-335: the whole of DisplayItem::convert_to_webrender for item i
ConvertItem(m, item, i, nodes, dbg) ==
    IF ~ItemContextDefined(m.clip_ids, item)
    THEN Raise(m, UnreachablePanic)
    ELSE Dispatch(SwitchContext(m, ItemContext(m.clip_ids, item), i), item, i, nodes, dbg)

(***************************************************************************)
(* DisplayList::convert_to_webrender, lines 51-74.                         *)
(***************************************************************************)
\* the order in which the for loop of line 65 takes the items
LoopStart == 1
\* mutant: the loop steps over every other item
LoopNextSkips(i) == i + 2
LoopNext(i) == i + 1
LoopDone(i) == i > Len(list)

\* lines 52-63
Setup ==
    /\ outcome = "start"
    /\ current_clip_and_scroll_info' = root_clip_and_scroll_info
    /\ builder' = push_clip_and_scroll_info(NewBuilder, root_clip_and_scroll_info, 0)
    /\ clip_ids' = [k \in 1..Len(clip_scroll_nodes) |->
                        IF k = 1 THEN Some(root_scroll_node) ELSE None]
    /\ next_item' = LoopStart
    /\ outcome' = "running"
    /\ UNCHANGED <<list, clip_scroll_nodes, debug_assertions, visited, before, panic>>

\* lines 65-72: one iteration of the loop
ConvertNextItem ==
    /\ outcome = "running"
    /\ ~LoopDone(next_item)
    /\ LET m == ConvertItem([builder |-> builder, clip_ids |-> clip_ids,
                             current |-> current_clip_and_scroll_info, panic |-> NoPanic],
                            list[next_item], next_item, clip_scroll_nodes, debug_assertions)
       IN  /\ builder' = m.builder
           /\ clip_ids' = m.clip_ids
           /\ current_clip_and_scroll_info' = m.current
           /\ panic' = m.panic
           /\ visited' = Append(visited, next_item)
           /\ before' = Append(before, [clip_ids |-> clip_ids,
                                        current |-> current_clip_and_scroll_info,
                                        builder |-> builder])
           /\ IF Panicked(m)
              THEN outcome' = "panicked" /\ next_item' = next_item
              ELSE outcome' = "running" /\ next_item' = LoopNext(next_item)
    /\ UNCHANGED <<list, clip_scroll_nodes, debug_assertions>>

\* line 73
ReturnBuilder ==
    /\ outcome = "running"
    /\ LoopDone(next_item)
    /\ outcome' = "returned"
    /\ UNCHANGED <<list, clip_scroll_nodes, debug_assertions, builder, clip_ids,
                   current_clip_and_scroll_info, next_item, visited, before, panic>>

Next == Setup \/ ConvertNextItem \/ ReturnBuilder

(***************************************************************************)
(* The inputs of one conversion.                                           *)
(***************************************************************************)
SeqsUpTo(S, n) == UNION {[1..k -> S] : k \in 0..n}

NodeIndices(n) == 0..(n - 1)
OptIndices(n) == {None} \cup {Some(k) : k \in NodeIndices(n)}

\* node arrays of n nodes: entry 0 is the root; any node may name any node its parent
NodeArrays(n, types) ==
    {[k \in 1..n |-> IF k = 1 THEN Node(0, "ScrollFrame", None) ELSE rest[k]] :
        rest \in [2..n -> [parent_index : NodeIndices(n), node_type : types, id : {None}]]}

Paint(kinds, n) ==
    {BaseItem(k, s, c) : k \in kinds, s \in NodeIndices(n), c \in OptIndices(n)}

DefineItems(n) ==
    {[BaseItem("DefineClipScrollNode", 0, None) EXCEPT !.node_index = k] : k \in 1..(n - 1)}

StackingItems(types) ==
    {[BaseItem("PushStackingContext", 0, None) EXCEPT !.context_type = t] : t \in types}
    \cup {BaseItem("PopStackingContext", 0, None)}

Start ==
    /\ builder = NewBuilder
    /\ clip_ids = <<>>
    /\ current_clip_and_scroll_info = root_clip_and_scroll_info
    /\ next_item = 0
    /\ visited = <<>>
    /\ before = <<>>
    /\ outcome = "start"
    /\ panic = NoPanic

\* the two contexts an item can name when only the root is defined
RootContexts == {<<0, None>>, <<0, Some(0)>>}
InRootContexts(items) ==
    {[it EXCEPT !.scrolling = c[1], !.clipping = c[2]] : it \in items, c \in RootContexts}

RootOnly == <<Node(0, "ScrollFrame", None)>>

\* lists of solid colours in any context and of node definitions, over every
\* array of up to MaxNodes clip nodes
InitTree ==
    /\ \E n \in 1..MaxNodes :
          /\ clip_scroll_nodes \in NodeArrays(n, {"Clip"})
          /\ list \in SeqsUpTo(Paint({"SolidColor"}, n) \cup DefineItems(n), MaxLen)
    /\ debug_assertions = TRUE
    /\ Start

\* lists around the definition of one sticky frame or scroll frame, defined under
\* either root context
InitSticky ==
    /\ clip_scroll_nodes \in NodeArrays(2, {"StickyFrame", "ScrollFrame"})
    /\ list \in SeqsUpTo({BaseItem("SolidColor", 0, None), BaseItem("SolidColor", 1, None),
                          BaseItem("SolidColor", 0, Some(1))}
                         \cup InRootContexts(DefineItems(2)),
                         MaxLen)
    /\ debug_assertions = TRUE
    /\ Start

\* lists of stacking-context pushes and pops around solid colours, in both builds
StackingContextTypes == {"Real", "PseudoPositioned"}
InitStack ==
    /\ clip_scroll_nodes = RootOnly
    /\ list \in SeqsUpTo(InRootContexts(StackingItems(StackingContextTypes)
                                        \cup {BaseItem("SolidColor", 0, None)}),
                         MaxStackLen)
    /\ debug_assertions \in BOOLEAN
    /\ Start

\* long lists over three contexts, the third one defined by the list itself
InitRun ==
    /\ clip_scroll_nodes = <<Node(0, "ScrollFrame", None), Node(0, "ScrollFrame", None)>>
    /\ list \in SeqsUpTo({BaseItem("SolidColor", 0, None), BaseItem("SolidColor", 0, Some(0)),
                          BaseItem("SolidColor", 1, None),
                          [BaseItem("DefineClipScrollNode", 0, None) EXCEPT !.node_index = 1]},
                         MaxRunLen)
    /\ debug_assertions = TRUE
    /\ Start

\* images of every stretch size and key
ImageSizes == {-1, 0, 2}
ImageItems ==
    {[BaseItem("Image", 0, None) EXCEPT !.key = k, !.width = w, !.height = h] :
        k \in {None, Some(7)}, w \in ImageSizes, h \in ImageSizes}
InitImage ==
    /\ clip_scroll_nodes = RootOnly
    /\ list \in SeqsUpTo(InRootContexts(ImageItems), MaxImageLen)
    /\ debug_assertions = TRUE
    /\ Start

\* one text item over every run of up to MaxSlices slices of up to MaxGlyphs glyphs
GlyphMenu ==
    {[id |-> 1, char_is_space |-> TRUE, advance |-> 2, offset |-> None],
     [id |-> 2, char_is_space |-> FALSE, advance |-> 3, offset |-> Some([x |-> 1, y |-> -1])],
     [id |-> 3, char_is_space |-> FALSE, advance |-> 5, offset |-> None]}
SliceMenu == [is_whitespace : BOOLEAN, glyphs : SeqsUpTo(GlyphMenu, MaxGlyphs)]
TextItems ==
    {[BaseItem("Text", 0, None) EXCEPT !.slices = sl, !.extra_word_spacing = sp,
                                       !.baseline_origin = [x |-> 10, y |-> 20]] :
        sl \in SeqsUpTo(SliceMenu, MaxSlices), sp \in {0, 1}}
InitText ==
    /\ clip_scroll_nodes = RootOnly
    /\ \E t \in TextItems : \E c \in RootContexts :
          list = <<[t EXCEPT !.scrolling = c[1], !.clipping = c[2]]>>
    /\ debug_assertions = TRUE
    /\ Start

\* every paint variant, each in one representative shape (the borders in all four)
OneGlyphRun == <<[is_whitespace |-> FALSE, glyphs |-> <<CHOOSE g \in GlyphMenu : g.id = 2>>]>>
KindItems ==
    {BaseItem(k, 0, None) : k \in PaintKinds \ {"Text", "Image", "Border"}}
    \cup {[BaseItem("Text", 0, None) EXCEPT !.slices = OneGlyphRun]}
    \cup {[BaseItem("Image", 0, None) EXCEPT !.key = Some(7), !.width = 2, !.height = 2]}
    \cup {[BaseItem("Border", 0, None) EXCEPT !.details = d] :
             d \in {"Normal", "Image", "Gradient", "RadialGradient"}}
InitKinds ==
    /\ clip_scroll_nodes = RootOnly
    /\ list \in SeqsUpTo(InRootContexts(KindItems), MaxKindsLen)
    /\ debug_assertions = TRUE
    /\ Start

\* lists in which a node may be defined any number of times, the root's entry included
InitTable ==
    /\ clip_scroll_nodes = <<Node(0, "ScrollFrame", None), Node(0, "Clip", None)>>
    /\ list \in SeqsUpTo({BaseItem("SolidColor", 0, None), BaseItem("SolidColor", 1, None),
                          BaseItem("DefineClipScrollNode", 0, None),
                          [BaseItem("DefineClipScrollNode", 0, None) EXCEPT !.node_index = 1]},
                         MaxTableLen)
    /\ debug_assertions = TRUE
    /\ Start

\* lists over a chain of three nodes (the root, a child, a grandchild) of every type
InitChain ==
    /\ \E t1, t2 \in NodeTypes :
          clip_scroll_nodes = <<Node(0, "ScrollFrame", None), Node(0, t1, None), Node(1, t2, None)>>
    /\ list \in SeqsUpTo({BaseItem("SolidColor", 0, None), BaseItem("SolidColor", 1, None),
                          BaseItem("SolidColor", 2, Some(1)),
                          [BaseItem("DefineClipScrollNode", 0, None) EXCEPT !.node_index = 1],
                          [BaseItem("DefineClipScrollNode", 0, None) EXCEPT !.node_index = 2]},
                         MaxChainLen)
    /\ debug_assertions = TRUE
    /\ Start

\* lists of the items that paint nothing (definitions, stacking-context and shadow
\* bookkeeping, text that is all whitespace, images that are skipped), each under
\* the root context, another resolved context and the context of the one node
\* the list can define
WhitespaceRun == <<[is_whitespace |-> TRUE, glyphs |-> <<CHOOSE g \in GlyphMenu : g.id = 1>>]>>
QuietItems ==
    {[BaseItem("DefineClipScrollNode", 0, None) EXCEPT !.node_index = 1],
     BaseItem("PushStackingContext", 0, None),
     BaseItem("PopStackingContext", 0, None),
     BaseItem("PopAllTextShadows", 0, None),
     [BaseItem("Text", 0, None) EXCEPT !.slices = WhitespaceRun],
     [BaseItem("Image", 0, None) EXCEPT !.key = Some(7), !.width = 0, !.height = 2],
     [BaseItem("Image", 0, None) EXCEPT !.key = None, !.width = 2, !.height = 2]}
QuietContexts == RootContexts \cup {<<1, None>>}
InitQuiet ==
    /\ clip_scroll_nodes = <<Node(0, "ScrollFrame", None), Node(0, "Clip", None)>>
    /\ list \in SeqsUpTo({[it EXCEPT !.scrolling = c[1], !.clipping = c[2]] :
                              it \in QuietItems, c \in QuietContexts},
                         MaxQuietLen)
    /\ debug_assertions = TRUE
    /\ Start

Init ==
    InitTree \/ InitSticky \/ InitStack \/ InitRun \/ InitImage \/ InitText \/ InitKinds
    \/ InitTable \/ InitChain \/ InitQuiet

Spec == Init /\ [][Next]_vars

\* the same conversion over one family of inputs each
SpecTree == (InitTree \/ InitSticky \/ InitKinds) /\ [][Next]_vars
SpecStack == InitStack /\ [][Next]_vars
SpecRun == InitRun /\ [][Next]_vars
SpecImage == InitImage /\ [][Next]_vars
SpecText == InitText /\ [][Next]_vars
SpecTable == InitTable /\ [][Next]_vars
SpecChain == InitChain /\ [][Next]_vars
SpecQuiet == InitQuiet /\ [][Next]_vars

(***************************************************************************)
(* What the claims are stated over: the log of the sink and, for the j-th  *)
(* item the loop visited, the state it was handed (before[j]) and the      *)
(* calls made on the sink while it was converted (Emitted(j)).             *)
(***************************************************************************)
Log == builder.log
Visits == 1..Len(visited)
ItemOf(j) == list[visited[j]]
Emitted(j) ==
    SubSeq(Log, Len(before[j].builder.log) + 1,
           IF j < Len(before) THEN Len(before[j + 1].builder.log) ELSE Len(Log))
\* the j-th visit ran to its end
Completed(j) == j < Len(visited) \/ outcome # "panicked"
Count(seq, ops) == Cardinality({k \in 1..Len(seq) : seq[k].op \in ops})
OpsOf(seq) == [k \in 1..Len(seq) |-> seq[k].op]

PrimitiveOps ==
    {"push_rect", "push_text", "push_image", "push_border", "push_gradient",
     "push_radial_gradient", "push_line", "push_box_shadow", "push_shadow", "push_iframe"}
DefineOps == {"define_clip_with_parent", "define_scroll_frame_with_parent", "define_sticky_frame"}
ContextOps == {"pop_clip_id", "push_clip_and_scroll_info", "push_clip_id"}

\* the entries of the resolution table an item names: (resolution[scrolling],
\* resolution[clipping] or none)
OwnDangling(ids, item) ==
    \/ ids[item.scrolling + 1] = None
    \/ item.clipping # None /\ ids[item.clipping[1] + 1] = None
ParentDangling(ids, item) ==
    /\ item.kind = "DefineClipScrollNode"
    /\ ids[clip_scroll_nodes[item.node_index + 1].parent_index + 1] = None
Dangling(ids, item) == OwnDangling(ids, item) \/ ParentDangling(ids, item)
ResolutionPair(ids, item) ==
    [scroll_node_id |-> ids[item.scrolling + 1][1],
     clip_node_id |-> IF item.clipping = None THEN None ELSE ids[item.clipping[1] + 1]]
Resolved(j) == ~OwnDangling(before[j].clip_ids, ItemOf(j))
PairOf(j) == ResolutionPair(before[j].clip_ids, ItemOf(j))

(***************************************************************************)
(* C1: every primitive written to the sink is written while the top of the *)
(* sink's clip-and-scroll stack is the pair (resolution[item.scrolling],   *)
(* resolution[item.clipping] or none) of the item that emits it.           *)
(***************************************************************************)
C1_PrimitiveUnderOwnContext ==
    \A j \in Visits : \A k \in 1..Len(Emitted(j)) :
        Emitted(j)[k].op \in PrimitiveOps =>
            Emitted(j)[k].context = Some(PairOf(j))

\* a primitive written under a scroll node the list defined itself, after a
\* primitive written under another context
C1_Witness ==
    /\ outcome = "returned"
    /\ \E j1, j2 \in Visits :
          /\ j1 < j2
          /\ Count(Emitted(j1), PrimitiveOps) = 1
          /\ Count(Emitted(j2), PrimitiveOps) = 1
          /\ PairOf(j1) # PairOf(j2)
          /\ PairOf(j2).scroll_node_id # root_scroll_node
          /\ PairOf(j2).clip_node_id # None

(***************************************************************************)
(* C2 and C3: dangling node references.                                    *)
(***************************************************************************)
\* the node array is a parent-before-child tree rooted at index 0
ValidTree(nodes) == \A k \in 2..Len(nodes) : nodes[k].parent_index < k - 1

\* the node indices item reads in the resolution table
Uses(item) ==
    {item.scrolling}
    \cup (IF item.clipping = None THEN {} ELSE {item.clipping[1]})
    \cup (IF item.kind = "DefineClipScrollNode"
          THEN {clip_scroll_nodes[item.node_index + 1].parent_index} ELSE {})

\* every index an item reads is the root or is defined by an earlier item of the list
DefinedBeforeUse ==
    \A j \in 1..Len(list) : \A k \in Uses(list[j]) :
        \/ k = 0
        \/ \E d \in 1..(j - 1) :
              list[d].kind = "DefineClipScrollNode" /\ list[d].node_index = k

\* each item is visited once and in turn, the traversal never overruns the list
VisitedOnceEach ==
    /\ visited = [j \in 1..Len(visited) |-> j]
    /\ Len(visited) <= Len(list)
    /\ outcome = "running" => next_item = Len(visited) + 1
    /\ outcome = "returned" => Len(visited) = Len(list)

C3_DanglingIsFatalAtUse ==
    /\ \A j \in Visits :
          Dangling(before[j].clip_ids, ItemOf(j)) =>
              /\ j = Len(visited)
              /\ outcome = "panicked" /\ panic = UnreachablePanic
              /\ next_item = visited[j]
              /\ Count(Emitted(j), PrimitiveOps \cup DefineOps) = 0
              /\ clip_ids = before[j].clip_ids
    /\ panic = UnreachablePanic =>
          /\ outcome = "panicked"
          /\ Dangling(before[Len(visited)].clip_ids, ItemOf(Len(visited)))
    /\ outcome = "panicked" => ~ENABLED Next
    /\ outcome = "returned" => panic = NoPanic

\* a definition whose node's parent is unresolved, reached after a completed item
\* and after the context switch of the definition itself
C3_Witness ==
    /\ outcome = "panicked"
    /\ Len(visited) >= 2
    /\ ParentDangling(before[Len(visited)].clip_ids, ItemOf(Len(visited)))
    /\ ~OwnDangling(before[Len(visited)].clip_ids, ItemOf(Len(visited)))
    /\ OpsOf(Emitted(Len(visited))) = <<"pop_clip_id", "push_clip_and_scroll_info">>
    /\ \E j \in Visits : j < Len(visited) /\ ItemOf(j).kind = "SolidColor"

(***************************************************************************)
(* C4 and C5: the context switches.                                        *)
(***************************************************************************)
\* the switches in a stretch of the log: an end of the active context
\* immediately followed by the beginning of a new one
Switches(seq) ==
    Cardinality({k \in 1..(Len(seq) - 1) :
                    /\ seq[k].op = "pop_clip_id"
                    /\ seq[k + 1].op = "push_clip_and_scroll_info"})

\* the context active before the j-th item: that of the item before it, the
\* root context before the first
PairBefore(j) == IF j = 1 THEN root_clip_and_scroll_info ELSE PairOf(j - 1)

\* the maximal runs of consecutive items sharing one context
Runs == Cardinality({j \in Visits : j = 1 \/ PairOf(j) # PairOf(j - 1)})
\* the changes of context along root, item 1, item 2, ...
Changes == Cardinality({j \in Visits : PairOf(j) # PairBefore(j)})

(***************************************************************************)
(* C4 as stated: over a whole conversion the number of switches emitted is *)
(* one per contiguous run of items sharing a context (so that 5 items      *)
(* sharing one context yield exactly 1 switch).                            *)
(***************************************************************************)
C4_Original == outcome = "returned" => Switches(Log) = Runs

(***************************************************************************)
(* C4 amended: over a whole conversion the number of switches emitted is   *)
(* the number of changes of (scrolling id, clipping id) along the sequence *)
(* root context, item 1, item 2, ...: consecutive items sharing a context  *)
(* cost no switch, and 5 consecutive items sharing one context yield       *)
(* exactly 1 switch when that context differs from the one active before   *)
(* them (the root context at the start of the list) and 0 when it does not.*)
(***************************************************************************)
\* the switches emitted while items a..b were converted
SwitchesWithin(a, b) ==
    Cardinality({j \in a..b : Switches(Emitted(j)) = 1})

C4_SwitchesAreChanges ==
    outcome = "returned" =>
        /\ Switches(Log) = Changes
        /\ Count(Log, {"push_clip_and_scroll_info"}) = 1 + Changes
        /\ \A j \in Visits : Switches(Emitted(j)) = IF PairOf(j) # PairBefore(j) THEN 1 ELSE 0
        /\ \A a \in Visits :
              (a + 4 \in Visits /\ \A j \in a..(a + 4) : PairOf(j) = PairOf(a)) =>
                  SwitchesWithin(a, a + 4) = IF PairOf(a) = PairBefore(a) THEN 0 ELSE 1

\* 5 items sharing the context of a node that the item before them defined: 1 switch
C4_Witness ==
    /\ outcome = "returned"
    /\ Len(list) = 6
    /\ list[1].kind = "DefineClipScrollNode"
    /\ \A j \in 2..6 : list[j].kind = "SolidColor" /\ list[j].scrolling = 1
    /\ PairOf(2).scroll_node_id # root_scroll_node
    /\ Switches(Log) = 1
    /\ Len(Log) = 9

(***************************************************************************)
(* C5: an item whose resolved context is the active one adds no switch:    *)
(* what it emits neither starts with an end of the active context nor      *)
(* holds a "begin new context"; an item whose resolved context differs     *)
(* emits first one end of the active context, then one "begin new context" *)
(* carrying its pair, then its own emissions, which hold no further        *)
(* "begin new context" and end a context only to close the temporary one a *)
(* sticky-frame definition opened; either way the tracked context is the   *)
(* item's pair afterwards.                                                 *)
(***************************************************************************)
CurrentAfter(j) ==
    IF j < Len(before) THEN before[j + 1].current ELSE current_clip_and_scroll_info

OpenIn(seq) == Count(seq, {"push_stacking_context"}) - Count(seq, {"pop_stacking_context"})
Done(kind) == Cardinality({j \in Visits : Completed(j) /\ ItemOf(j).kind = kind})
\* the log without the context commands
Painted == SelectSeq(Log, LAMBDA e : e.op \notin ContextOps)
KindsOf(l) == [j \in 1..Len(l) |-> l[j].kind]

(***************************************************************************)
(* C6: after any prefix of any list the number of stacking contexts open   *)
(* in the sink is the number of PushStackingContext items processed less   *)
(* the number of PopStackingContext items processed, each Push item having *)
(* opened exactly one and each Pop item closed exactly one; the list       *)
(* [PushStackingContext, SolidColor, PopStackingContext] is emitted as     *)
(* [open-context, rectangle, close-context], none left open.               *)
(***************************************************************************)
C6_StackingContextsOpen ==
    /\ OpenIn(Log) = Done("PushStackingContext") - Done("PopStackingContext")
    /\ builder.stacking_contexts = OpenIn(Log)
    /\ \A j \in Visits : Completed(j) =>
          /\ Count(Emitted(j), {"push_stacking_context"}) =
                 IF ItemOf(j).kind = "PushStackingContext" THEN 1 ELSE 0
          /\ Count(Emitted(j), {"pop_stacking_context"}) =
                 IF ItemOf(j).kind = "PopStackingContext" THEN 1 ELSE 0
    /\ (outcome = "returned"
          /\ KindsOf(list) = <<"PushStackingContext", "SolidColor", "PopStackingContext">>) =>
          /\ OpsOf(Painted) = <<"push_stacking_context", "push_rect", "pop_stacking_context">>
          /\ OpenIn(Log) = 0
          /\ (\A j \in 1..3 : list[j].clipping = None) =>
                 OpsOf(Log) = <<"push_clip_and_scroll_info", "push_stacking_context",
                                "push_rect", "pop_stacking_context">>

\* the scenario's list, converted and returned
C6_Witness ==
    /\ outcome = "returned"
    /\ KindsOf(list) = <<"PushStackingContext", "SolidColor", "PopStackingContext">>
    /\ \A j \in 1..3 : list[j].clipping = None
    /\ Len(Log) = 4

C7_SourceOrder ==
    /\ VisitedOnceEach
    /\ \A j \in Visits : \A k \in 1..Len(Emitted(j)) : Emitted(j)[k].item = j
    /\ \A k \in 1..Len(Log) :
          /\ Log[k].item \in {0} \cup {visited[j] : j \in Visits}
          /\ k < Len(Log) => Log[k].item <= Log[k + 1].item
    /\ \A k \in 1..Len(Log) : Log[k].item = 0 <=> k = 1

\* three items converted, each of which emitted something
C7_Witness ==
    /\ outcome = "returned"
    /\ Len(list) = 3
    /\ \A j \in 1..3 : Emitted(j) # <<>>
    /\ list[1] # list[2] /\ list[2] # list[3]

(***************************************************************************)
(* C9 and C10: what an item emits of its own, after the context switch of  *)
(* C5 (which an item emits whatever its variant).                          *)
(***************************************************************************)
OwnEmissions(j) ==
    IF PairOf(j) # before[j].current
    THEN SubSeq(Emitted(j), 3, Len(Emitted(j)))
    ELSE Emitted(j)

(***************************************************************************)
(* C9: an Image item with a resolved image key and a stretch size positive *)
(* in both dimensions emits exactly one image primitive; with width or     *)
(* height 0 (or less), or with no key, it emits nothing of its own and     *)
(* raises no error, and the traversal goes on to the next item.            *)
(***************************************************************************)
C9_ImageEmission ==
    \A j \in Visits : (ItemOf(j).kind = "Image" /\ Resolved(j)) =>
        /\ Completed(j)
        /\ outcome = "running" => next_item > visited[j]
        /\ IF ItemOf(j).key # None /\ ItemOf(j).width > 0 /\ ItemOf(j).height > 0
           THEN OpsOf(OwnEmissions(j)) = <<"push_image">>
           ELSE OwnEmissions(j) = <<>>

\* an image of size (w, 0) with a key, skipped, then an image of positive size, emitted
C9_Witness ==
    /\ outcome = "returned"
    /\ Len(list) = 2
    /\ list[1].kind = "Image" /\ list[1].key # None
    /\ list[1].width > 0 /\ list[1].height = 0
    /\ Emitted(1) = <<>>
    /\ list[2].kind = "Image"
    /\ OpsOf(Emitted(2)) = <<"push_image">>

(***************************************************************************)
(* C10: a Text item whose run has N glyphs in slices that are not          *)
(* whitespace and M glyphs in whitespace slices emits one text-run         *)
(* primitive of exactly N glyph instances when N > 0, and nothing of its   *)
(* own when N = 0.                                                         *)
(***************************************************************************)
RECURSIVE GlyphsIn(_, _)
GlyphsIn(slices, whitespace) ==
    IF slices = <<>> THEN 0
    ELSE (IF Head(slices).is_whitespace = whitespace THEN Len(Head(slices).glyphs) ELSE 0)
         + GlyphsIn(Tail(slices), whitespace)

C10_TextGlyphCount ==
    \A j \in Visits : (ItemOf(j).kind = "Text" /\ Resolved(j)) =>
        LET N == GlyphsIn(ItemOf(j).slices, FALSE) IN
        /\ Completed(j)
        /\ IF N > 0
           THEN /\ OpsOf(OwnEmissions(j)) = <<"push_text">>
                /\ Len(OwnEmissions(j)[1].arg) = N
           ELSE OwnEmissions(j) = <<>>

\* a run of a whitespace slice and a slice that is not, one glyph each, the
\* whitespace one first: one text run of one glyph instance
C10_Witness ==
    /\ outcome = "returned"
    /\ Len(list) = 1 /\ list[1].kind = "Text"
    /\ GlyphsIn(list[1].slices, TRUE) = 1
    /\ GlyphsIn(list[1].slices, FALSE) = 1
    /\ list[1].slices[1].is_whitespace
    /\ OpsOf(Emitted(1)) = <<"push_text">>
    /\ Len(Emitted(1)[1].arg) = 1

(***************************************************************************)
(* C11: the cursor of a Text item.  Flat is the run glyph by glyph in      *)
(* visual order, each glyph with the whitespace flag of its slice; a       *)
(* glyph's advance is its base advance, plus the extra word spacing when   *)
(* the glyph is a space (char_is_space).                                   *)
(***************************************************************************)
RECURSIVE Flat(_)
Flat(slices) ==
    IF slices = <<>> THEN <<>>
    ELSE [k \in 1..Len(Head(slices).glyphs) |->
              [skipped |-> Head(slices).is_whitespace, glyph |-> Head(slices).glyphs[k]]]
         \o Flat(Tail(slices))

\* the sum of the advances of the first n glyphs of flat
RECURSIVE AdvanceSum(_, _, _)
AdvanceSum(flat, n, extra) ==
    IF n = 0 THEN 0
    ELSE AdvanceSum(flat, n - 1, extra) + flat[n].glyph.advance
         + (IF flat[n].glyph.char_is_space THEN extra ELSE 0)

\* where each glyph of the run belongs, in app units
Positions(item) ==
    LET flat == Flat(item.slices) IN
    [k \in 1..Len(flat) |->
        [skipped |-> flat[k].skipped,
         index |-> flat[k].glyph.id,
         x |-> item.baseline_origin.x + AdvanceSum(flat, k - 1, item.extra_word_spacing)
               + (IF flat[k].glyph.offset = None THEN 0 ELSE flat[k].glyph.offset[1].x),
         y |-> item.baseline_origin.y
               + (IF flat[k].glyph.offset = None THEN 0 ELSE flat[k].glyph.offset[1].y)]]

ExpectedInstances(item) == SelectSeq(Positions(item), LAMBDA p : ~p.skipped)

(***************************************************************************)
(* C11: over a Text item the cursor advances in all by the sum, over every *)
(* glyph of the run (skipped or not), of the glyph's base advance plus the *)
(* extra word spacing once for each space glyph; and each glyph instance   *)
(* emitted is the glyph's id at the baseline origin plus the advances of   *)
(* all the glyphs before it in visual order (the skipped ones included)    *)
(* plus the glyph's own offset, converted to pixels.                       *)
(***************************************************************************)
C11_TextCursor ==
    \A j \in Visits : (ItemOf(j).kind = "Text" /\ Resolved(j)) =>
        LET item == ItemOf(j)
            flat == Flat(item.slices)
            want == ExpectedInstances(item)
        IN  /\ TextLayout(item).origin.x - item.baseline_origin.x =
                   AdvanceSum(flat, Len(flat), item.extra_word_spacing)
            /\ TextLayout(item).origin.y = item.baseline_origin.y
            /\ want # <<>> =>
                  /\ OpsOf(OwnEmissions(j)) = <<"push_text">>
                  /\ LET got == OwnEmissions(j)[1].arg IN
                     /\ Len(got) = Len(want)
                     /\ \A n \in 1..Len(want) :
                           /\ got[n].index = want[n].index
                           /\ got[n].point.x = [num |-> want[n].x, den |-> 60]
                           /\ got[n].point.y = [num |-> want[n].y, den |-> 60]

\* a skipped space glyph with extra word spacing 1, then a glyph with an offset:
\* the instance sits at 10 + (2 + 1) + 1 across and 20 - 1 down
C11_Witness ==
    /\ outcome = "returned"
    /\ Len(list) = 1 /\ list[1].kind = "Text" /\ list[1].extra_word_spacing = 1
    /\ Len(list[1].slices) = 2
    /\ list[1].slices[1].is_whitespace /\ ~list[1].slices[2].is_whitespace
    /\ Len(list[1].slices[1].glyphs) = 1 /\ list[1].slices[1].glyphs[1].char_is_space
    /\ Len(list[1].slices[2].glyphs) = 1 /\ list[1].slices[2].glyphs[1].offset # None
    /\ OpsOf(Emitted(1)) = <<"push_text">>
    /\ Emitted(1)[1].arg[1].point.x.num = 14
    /\ Emitted(1)[1].arg[1].point.y.num = 19

(***************************************************************************)
(* C12: gradients are registered with the sink before they are used.       *)
(***************************************************************************)
RegisterOps == {"create_gradient", "create_radial_gradient"}

\* the registration a variant makes, none when it makes none
RegistrationOf(item) ==
    CASE item.kind = "Border" /\ item.details = "Gradient" -> Some("create_gradient")
      [] item.kind = "Border" /\ item.details = "RadialGradient" -> Some("create_radial_gradient")
      [] item.kind = "Gradient" -> Some("create_gradient")
      [] item.kind = "RadialGradient" -> Some("create_radial_gradient")
      [] OTHER -> None

PrimitiveOf(item) ==
    CASE item.kind = "Border" -> "push_border"
      [] item.kind = "Gradient" -> "push_gradient"
      [] item.kind = "RadialGradient" -> "push_radial_gradient"

\* the handle a primitive of the log refers to, none when it refers to none
HandleIn(e) == IF e.op = "push_border" THEN e.arg.gradient ELSE Some(e.arg)

(***************************************************************************)
(* C12: a Border item with linear- or radial-gradient details makes        *)
(* exactly one registration (of the matching kind) and only then emits     *)
(* exactly one border primitive, which refers to the handle just           *)
(* registered; a Border item with plain or image details registers nothing *)
(* and emits exactly one border primitive, which refers to no handle; a    *)
(* Gradient or RadialGradient item makes exactly one registration and then *)
(* emits exactly one gradient primitive referring to its handle.  No       *)
(* handle is registered twice, and no other item registers anything.       *)
(***************************************************************************)
C12_GradientRegisteredBeforeUse ==
    /\ \A j \in Visits :
          (ItemOf(j).kind \in {"Border", "Gradient", "RadialGradient"} /\ Resolved(j)) =>
              LET E == OwnEmissions(j)
                  reg == RegistrationOf(ItemOf(j))
              IN  /\ Completed(j)
                  /\ IF reg = None
                     THEN /\ OpsOf(E) = <<"push_border">>
                          /\ HandleIn(E[1]) = None
                     ELSE /\ OpsOf(E) = <<reg[1], PrimitiveOf(ItemOf(j))>>
                          /\ HandleIn(E[2]) = Some(E[1].arg)
    /\ \A j \in Visits :
          ItemOf(j).kind \notin {"Border", "Gradient", "RadialGradient"} =>
              Count(Emitted(j), RegisterOps) = 0
    /\ \A k1, k2 \in 1..Len(Log) :
          (k1 < k2 /\ Log[k1].op \in RegisterOps /\ Log[k2].op \in RegisterOps) =>
              Log[k1].arg # Log[k2].arg

\* a border with a gradient and then a radial gradient: two registrations, each
\* followed by the primitive that refers to it
C12_Witness ==
    /\ outcome = "returned"
    /\ Len(list) = 2
    /\ list[1].kind = "Border" /\ list[1].details = "Gradient"
    /\ list[2].kind = "RadialGradient"
    /\ OpsOf(OwnEmissions(1)) = <<"create_gradient", "push_border">>
    /\ OpsOf(OwnEmissions(2)) = <<"create_radial_gradient", "push_radial_gradient">>
    /\ OwnEmissions(1)[2].arg.gradient # Some(OwnEmissions(2)[2].arg)

(***************************************************************************)
(* C13: a second conversion of the same list, node array and build, run    *)
(* to its end into a fresh sink of its own.  So that the two runs can      *)
(* differ at all, the second sink hands out other ids than the first: each *)
(* id it assigns is the first sink's plus 10 (the root scroll id belongs   *)
(* to the surface and is the same in both).                                *)
(***************************************************************************)
OtherBuilder == [NewBuilder EXCEPT !.next_clip_id = @ + 10]

\* lines 65-72 from item i on: the state the loop stops in and the item it stops at
RECURSIVE ConvertFrom(_, _, _, _, _)
ConvertFrom(m, items, i, nodes, dbg) ==
    IF i > Len(items) THEN [m |-> m, next_item |-> i]
    ELSE LET after == ConvertItem(m, items[i], i, nodes, dbg)
         IN  IF Panicked(after) THEN [m |-> after, next_item |-> i]
             ELSE ConvertFrom(after, items, LoopNext(i), nodes, dbg)

\* lines 52-73 into the sink b
ConvertInto(b, items, nodes, dbg) ==
    ConvertFrom([builder |-> push_clip_and_scroll_info(b, root_clip_and_scroll_info, 0),
                 clip_ids |-> [k \in 1..Len(nodes) |->
                                  IF k = 1 THEN Some(root_scroll_node) ELSE None],
                 current |-> root_clip_and_scroll_info,
                 panic |-> NoPanic],
                items, LoopStart, nodes, dbg)

SecondConversion == ConvertInto(OtherBuilder, list, clip_scroll_nodes, debug_assertions)

\* the first sink's ids as the second sink assigns them
OtherId(id) == IF id = root_scroll_node THEN id ELSE id + 10
OtherInfo(info) ==
    [scroll_node_id |-> OtherId(info.scroll_node_id),
     clip_node_id |-> IF info.clip_node_id = None THEN None
                      ELSE Some(OtherId(info.clip_node_id[1]))]
OtherEntry(e) ==
    [e EXCEPT !.context = IF @ = None THEN None ELSE Some(OtherInfo(@[1])),
              !.arg = CASE e.op \in {"push_clip_and_scroll_info", "push_clip_id"} -> OtherInfo(@)
                        [] e.op \in DefineOps ->
                              [id |-> OtherId(@.id),
                               parent |-> IF @.parent = None THEN None
                                          ELSE Some(OtherId(@.parent[1]))]
                        [] OTHER -> @]

TableAt(j) == before[j].clip_ids
TableAfter(j) == IF j < Len(before) THEN before[j + 1].clip_ids ELSE clip_ids
Tables == {TableAt(j) : j \in Visits} \cup (IF outcome = "start" THEN {} ELSE {clip_ids})
SeededTable ==
    [k \in 1..Len(clip_scroll_nodes) |-> IF k = 1 THEN Some(root_scroll_node) ELSE None]

\* the visits that define the node of index n (entry n + 1 of the table)
DefinitionsOf(n) ==
    {j \in Visits : ItemOf(j).kind = "DefineClipScrollNode" /\ ItemOf(j).node_index = n}

\* the j-th visit wrote x into entry k: the entry holds x after it
Fills(j, k) == TableAfter(j)[k] # TableAt(j)[k]

\* the list defines no node twice, and does not define the root
DefinedOnceEach ==
    \A a, b \in 1..Len(list) :
        list[a].kind = "DefineClipScrollNode" =>
            /\ list[a].node_index # 0
            /\ (list[b].kind = "DefineClipScrollNode"
                   /\ list[b].node_index = list[a].node_index) => a = b

(***************************************************************************)
(* C14 as stated: the table has the length of the node array throughout;   *)
(* entry 0 holds the root scroll id from the start; every other entry      *)
(* starts empty and is filled exactly once, by the DefineClipScrollNode    *)
(* item addressing that index; a filled entry is never emptied or changed  *)
(* afterwards.                                                             *)
(***************************************************************************)
C14_Original ==
    /\ \A t \in Tables : Len(t) = Len(clip_scroll_nodes)
    /\ \A j \in Visits : j = 1 => TableAt(j) = SeededTable
    /\ \A j \in Visits : \A k \in 1..Len(clip_scroll_nodes) :
          /\ Fills(j, k) => ItemOf(j).kind = "DefineClipScrollNode"
                            /\ ItemOf(j).node_index = k - 1
          /\ TableAt(j)[k] # None => TableAfter(j)[k] = TableAt(j)[k]
    /\ \A k \in 1..Len(clip_scroll_nodes) :
          Cardinality({j \in Visits : Fills(j, k)}) <= 1

(***************************************************************************)
(* C14 amended: the table has the length of the node array throughout;     *)
(* entry 0 holds the root scroll id from the start and every other entry   *)
(* starts empty; an entry is written only by a DefineClipScrollNode item   *)
(* addressing its index, and every such item that is processed to its end  *)
(* writes the id its definition returned into the entry, whether the entry *)
(* was empty or not; an entry is never emptied.  When the list defines no  *)
(* node twice and does not define the root, each entry is filled at most   *)
(* once and a filled entry is never changed afterwards.                    *)
(***************************************************************************)
C14_TableFilledByDefinitions ==
    /\ \A t \in Tables : Len(t) = Len(clip_scroll_nodes)
    /\ \A j \in Visits : j = 1 => TableAt(j) = SeededTable
    /\ \A j \in Visits : \A k \in 1..Len(clip_scroll_nodes) :
          /\ Fills(j, k) => j \in DefinitionsOf(k - 1)
          /\ TableAt(j)[k] # None => TableAfter(j)[k] # None
          /\ (j \in DefinitionsOf(k - 1) /\ Completed(j)) =>
                /\ Count(Emitted(j), DefineOps) = 1
                /\ TableAfter(j)[k] = Some(Emitted(j)[Len(Emitted(j))].arg.id)
                /\ \A e \in 1..Len(before[j].builder.log) :
                      before[j].builder.log[e].op \in DefineOps =>
                          before[j].builder.log[e].arg.id # TableAfter(j)[k][1]
    /\ DefinedOnceEach =>
          /\ \A j \in Visits : \A k \in 1..Len(clip_scroll_nodes) :
                TableAt(j)[k] # None => TableAfter(j)[k] = TableAt(j)[k]
          /\ \A k \in 1..Len(clip_scroll_nodes) :
                Cardinality({j \in Visits : Fills(j, k)}) <= 1

\* a node defined twice and the root defined once: both entries end up changed
C14_Witness ==
    /\ outcome = "returned"
    /\ Cardinality(DefinitionsOf(1)) = 2
    /\ Cardinality(DefinitionsOf(0)) = 1
    /\ Cardinality({j \in Visits : Fills(j, 2)}) = 2
    /\ clip_ids[1] # Some(root_scroll_node)

(***************************************************************************)
(* C15: what a node definition emits of its own.                           *)
(***************************************************************************)
NodeOf(j) == clip_scroll_nodes[ItemOf(j).node_index + 1]
\* the id the table held for the parent of the node when the item was processed
ParentIdOf(j) == before[j].clip_ids[NodeOf(j).parent_index + 1][1]
\* the sink's context stack and the tracker's context once the j-th item is done
StackAfter(j) ==
    IF j < Len(before) THEN before[j + 1].builder.clip_stack ELSE builder.clip_stack
\* the sink's context stack when the variant of the j-th item is dispatched:
\* that of the item before, its top replaced when the item switched
StackAtDispatch(j) ==
    LET stack == before[j].builder.clip_stack IN
    IF PairOf(j) = before[j].current THEN stack
    ELSE SubSeq(stack, 1, Len(stack) - 1) \o <<PairOf(j)>>

DefineOpOf(type) ==
    CASE type = "Clip" -> "define_clip_with_parent"
      [] type = "ScrollFrame" -> "define_scroll_frame_with_parent"
      [] type = "StickyFrame" -> "define_sticky_frame"

(***************************************************************************)
(* C15: a DefineClipScrollNode item of a StickyFrame node emits, in this   *)
(* order, a "begin context" of the parent's id, the sticky-frame           *)
(* definition (made while that context is the active one, and naming no    *)
(* parent itself) and an "end context", and leaves the sink's context      *)
(* stack and the tracker's current context as they were when the           *)
(* definition began; of a Clip or ScrollFrame node it emits the definition *)
(* alone, with the parent's id as its explicit parent, and no context      *)
(* command of its own.                                                     *)
(***************************************************************************)
C15_StickyFrameContext ==
    \A j \in Visits :
        (ItemOf(j).kind = "DefineClipScrollNode"
            /\ ~Dangling(before[j].clip_ids, ItemOf(j))) =>
            LET E == OwnEmissions(j) IN
            /\ Completed(j)
            /\ StackAfter(j) = StackAtDispatch(j)
            /\ CurrentAfter(j) = PairOf(j)
            /\ IF NodeOf(j).node_type = "StickyFrame"
               THEN /\ OpsOf(E) = <<"push_clip_id", "define_sticky_frame", "pop_clip_id">>
                    /\ E[1].arg = ClipAndScrollInfo_simple(ParentIdOf(j))
                    /\ E[1].context = Some(PairOf(j))
                    /\ E[2].context = Some(ClipAndScrollInfo_simple(ParentIdOf(j)))
                    /\ E[2].arg.parent = None
                    /\ E[3].context = E[2].context
                    /\ E[3].depth = E[1].depth - 1
               ELSE /\ OpsOf(E) = <<DefineOpOf(NodeOf(j).node_type)>>
                    /\ E[1].arg.parent = Some(ParentIdOf(j))
                    /\ E[1].context = Some(PairOf(j))
                    /\ Count(E, ContextOps) = 0

\* a sticky frame defined under a context other than the active one, then an item
\* scrolled by it
C15_Witness ==
    /\ outcome = "returned"
    /\ \E j \in Visits :
          /\ ItemOf(j).kind = "DefineClipScrollNode"
          /\ NodeOf(j).node_type = "StickyFrame"
          /\ OpsOf(Emitted(j)) = <<"pop_clip_id", "push_clip_and_scroll_info",
                                   "push_clip_id", "define_sticky_frame", "pop_clip_id">>
          /\ Emitted(j)[3].context # Emitted(j)[4].context
          /\ j + 1 \in Visits /\ ItemOf(j + 1).scrolling = ItemOf(j).node_index

(***************************************************************************)
(* C16: where the ids of the emitted stream come from.                     *)
(***************************************************************************)
\* the ids the sink knows when the k-th call is made: the root scroll id and
\* those the definitions before it returned
KnownAt(k) ==
    {root_scroll_node}
    \cup {Log[e].arg.id : e \in {e \in 1..(k - 1) : Log[e].op \in DefineOps}}

\* the ids a call hands to the sink
IdsIn(e) ==
    CASE e.op \in {"push_clip_and_scroll_info", "push_clip_id"} ->
            {e.arg.scroll_node_id}
            \cup (IF e.arg.clip_node_id = None THEN {} ELSE {e.arg.clip_node_id[1]})
      [] e.op \in DefineOps -> IF e.arg.parent = None THEN {} ELSE {e.arg.parent[1]}
      [] OTHER -> {}

\* the definition the j-th item emitted
DefinitionOf(j) == SelectSeq(Emitted(j), LAMBDA e : e.op \in DefineOps)[1]

(***************************************************************************)
(* C16: every id handed to the sink, in a pushed clip-and-scroll context   *)
(* or as the parent of a node definition, is the root scroll id or an id   *)
(* that a node definition earlier in the stream returned; and the node of  *)
(* a DefineClipScrollNode item is defined under exactly the id the         *)
(* resolution table holds for the node's parent (as the explicit parent of *)
(* a clip or scroll frame, as the active context of a sticky frame), and   *)
(* the id the definition returns is the id the table holds for the node    *)
(* afterwards.                                                             *)
(***************************************************************************)
C16_IdsAreDefinedEarlier ==
    /\ \A k \in 1..Len(Log) : IdsIn(Log[k]) \subseteq KnownAt(k)
    /\ \A k \in 1..Len(Log) :
          Log[k].context # None =>
              /\ Log[k].context[1].scroll_node_id \in KnownAt(k)
              /\ Log[k].context[1].clip_node_id # None =>
                     Log[k].context[1].clip_node_id[1] \in KnownAt(k)
    /\ \A j \in Visits :
          (ItemOf(j).kind = "DefineClipScrollNode"
              /\ ~Dangling(before[j].clip_ids, ItemOf(j))) =>
              /\ Count(Emitted(j), DefineOps) = 1
              /\ IF NodeOf(j).node_type = "StickyFrame"
                 THEN DefinitionOf(j).context = Some(ClipAndScrollInfo_simple(ParentIdOf(j)))
                 ELSE DefinitionOf(j).arg.parent = Some(ParentIdOf(j))
              /\ TableAfter(j)[ItemOf(j).node_index + 1] = Some(DefinitionOf(j).arg.id)

\* a child of the root and then its own child defined, the second under the id the
\* first returned, and an item painted under both ids
C16_Witness ==
    /\ outcome = "returned"
    /\ \E j1, j2, j3 \in Visits :
          /\ j1 < j2 /\ j2 < j3
          /\ ItemOf(j1).kind = "DefineClipScrollNode" /\ ItemOf(j1).node_index = 1
          /\ ItemOf(j2).kind = "DefineClipScrollNode" /\ ItemOf(j2).node_index = 2
          /\ NodeOf(j2).node_type = "Clip"
          /\ DefinitionOf(j2).arg.parent = Some(DefinitionOf(j1).arg.id)
          /\ PairOf(j3) = ClipAndScrollInfo_new(DefinitionOf(j2).arg.id, DefinitionOf(j1).arg.id)
          /\ Count(Emitted(j3), {"push_clip_and_scroll_info"}) = 1

(***************************************************************************)
(* C17: stacking contexts that are not of the "real" kind.                 *)
(***************************************************************************)
\* the j-th item is a PushStackingContext of another kind than Real whose own
\* context resolves
PushesPseudo(j) ==
    /\ ItemOf(j).kind = "PushStackingContext"
    /\ ItemOf(j).context_type # "Real"
    /\ Resolved(j)

\* the conversion stopped at the j-th item, which opened no stacking context
AbortedAt(j) ==
    /\ j = Len(visited)
    /\ outcome = "panicked"
    /\ next_item = visited[j]
    /\ Count(Emitted(j), {"push_stacking_context"}) = 0
    /\ builder.stacking_contexts = before[j].builder.stacking_contexts
    /\ ~ENABLED Next

(***************************************************************************)
(* C17 as stated: processing a PushStackingContext item whose context type *)
(* is not Real aborts the conversion at that item, before any nested       *)
(* context is opened in the sink, and no builder is returned.              *)
(***************************************************************************)
C17_Original == \A j \in Visits : PushesPseudo(j) => AbortedAt(j)

(***************************************************************************)
(* C17 amended: in a build with debug assertions, processing a             *)
(* PushStackingContext item whose context type is not Real aborts the      *)
(* conversion at that item with a failed assertion, after the item's       *)
(* context switch if it makes one but before a stacking context is opened  *)
(* in the sink, and no builder is returned; in a build without debug       *)
(* assertions the item is converted as a Real one is: it opens one         *)
(* stacking context and the traversal goes on.  The assertion fails for no *)
(* other stacking-context item.                                            *)
(***************************************************************************)
C17_PseudoContextFatalInDebugBuilds ==
    /\ \A j \in Visits : PushesPseudo(j) =>
          IF debug_assertions
          THEN AbortedAt(j) /\ panic = DebugAssertPanic /\ OwnEmissions(j) = <<>>
          ELSE /\ Completed(j)
               /\ OpsOf(OwnEmissions(j)) = <<"push_stacking_context">>
               /\ OwnEmissions(j)[1].arg = ItemOf(j).context_type
    /\ \A j \in Visits :
          (ItemOf(j).kind = "PushStackingContext" /\ ItemOf(j).context_type = "Real"
              /\ Resolved(j)) =>
              Completed(j) /\ OpsOf(OwnEmissions(j)) = <<"push_stacking_context">>
    /\ panic = DebugAssertPanic => debug_assertions /\ PushesPseudo(Len(visited))

\* a debug build: a Real context opened, then a pseudo context under another
\* clip-and-scroll context: the switch is emitted, the conversion stops
C17_Witness ==
    /\ debug_assertions
    /\ outcome = "panicked"
    /\ Len(visited) = 2
    /\ ItemOf(1).kind = "PushStackingContext" /\ ItemOf(1).context_type = "Real"
    /\ PushesPseudo(2)
    /\ OpsOf(Emitted(2)) = <<"pop_clip_id", "push_clip_and_scroll_info">>
    /\ builder.stacking_contexts = 1

(***************************************************************************)
(* C18: the depth of the sink's clip-and-scroll stack, counted from the    *)
(* empty stack of a fresh sink: Log[k].depth is the depth the k-th call    *)
(* left.                                                                   *)
(***************************************************************************)
\* the k-th call is made inside the definition of a sticky frame
InStickyDefinition(k) ==
    /\ Log[k].op \in {"push_clip_id", "define_sticky_frame"}
    /\ Log[k].item \in 1..Len(list)
    /\ list[Log[k].item].kind = "DefineClipScrollNode"
    /\ clip_scroll_nodes[list[Log[k].item].node_index + 1].node_type = "StickyFrame"

\* between items: the initial push is made and no item is half-way
AtRest ==
    /\ outcome # "start" => builder.clip_stack = <<current_clip_and_scroll_info>>
    /\ \A j \in Visits : before[j].builder.clip_stack = <<before[j].current>>

(***************************************************************************)
(* C18 as stated: after the initial push and after every completely        *)
(* processed item the sink's context stack has depth exactly 1 and its top *)
(* is the tracker's current context; the depth never drops to 0 and never  *)
(* exceeds 2, and is 2 only inside a StickyFrame definition; the initial   *)
(* push is never popped.                                                   *)
(***************************************************************************)
C18_Original ==
    /\ AtRest
    /\ \A k \in 1..Len(Log) :
          /\ Log[k].depth \in 1..2
          /\ Log[k].depth = 2 => InStickyDefinition(k)

(***************************************************************************)
(* C18 amended: after the initial push, after every completely processed   *)
(* item and at a failure, the sink's context stack has depth exactly 1 and *)
(* its top is the tracker's current context; in between, the depth is 0    *)
(* only between the "end context" and the "begin context" of a context     *)
(* switch, 2 only inside a StickyFrame definition, and never anything      *)
(* else; no "end context" is issued on an empty stack.  So the builder     *)
(* returned has exactly one context open: the one the last switch pushed,  *)
(* and the initially pushed root context only when no item switched.       *)
(***************************************************************************)
C18_StackDepth ==
    /\ AtRest
    /\ \A k \in 1..Len(Log) :
          /\ Log[k].depth \in 0..2
          /\ Log[k].depth = 0 =>
                /\ Log[k].op = "pop_clip_id"
                /\ k < Len(Log)
                /\ Log[k + 1].op = "push_clip_and_scroll_info"
                /\ Log[k + 1].item = Log[k].item
          /\ Log[k].depth = 2 => InStickyDefinition(k)
          /\ Log[k].op = "pop_clip_id" => Log[k].context # None
    /\ outcome = "returned" =>
          /\ Count(Log, {"push_clip_and_scroll_info", "push_clip_id"})
                 - Count(Log, {"pop_clip_id"}) = 1
          /\ Len(builder.clip_stack) = 1
          /\ builder.clip_stack[1] = root_clip_and_scroll_info =>
                \/ Switches(Log) = 0
                \/ \E j \in Visits : Switches(Emitted(j)) = 1
                                      /\ PairOf(j) = root_clip_and_scroll_info
          /\ Switches(Log) = 0 => builder.clip_stack = <<root_clip_and_scroll_info>>

\* a sticky frame defined after a switch, then an item scrolled by it: the depth
\* has been 0 and 2, and the one context open at the end is not the root context
C18_Witness ==
    /\ outcome = "returned"
    /\ \E k \in 1..Len(Log) : Log[k].depth = 0
    /\ \E k \in 1..Len(Log) : Log[k].depth = 2
    /\ Len(builder.clip_stack) = 1
    /\ builder.clip_stack[1] # root_clip_and_scroll_info

(***************************************************************************)
(* C19: the items that paint nothing.                                      *)
(***************************************************************************)
\* an item of a variant that is no paint item, or of a shape that emits no primitive
PaintsNothing(item) ==
    \/ item.kind \in {"DefineClipScrollNode", "PushStackingContext", "PopStackingContext",
                      "PopAllTextShadows"}
    \/ item.kind = "Text" /\ GlyphsIn(item.slices, FALSE) = 0
    \/ item.kind = "Image" /\ (item.key = None \/ item.width <= 0 \/ item.height <= 0)

(***************************************************************************)
(* C19: the resolution of the item's own context and the context switch    *)
(* run for every variant before the variant is looked at.  An item that    *)
(* paints nothing (a DefineClipScrollNode, PushStackingContext,            *)
(* PopStackingContext or PopAllTextShadows item, a Text item that is all   *)
(* whitespace, an Image item with a degenerate stretch size or no key)     *)
(* whose resolved context differs from the active one emits first one      *)
(* "end context" and one "begin context" carrying its pair, and the active *)
(* context is its pair afterwards; whose resolved context is the active    *)
(* one emits no switch; and whose own scrolling or clipping index is       *)
(* unresolved is fatal, nothing being emitted for it, even when it is a    *)
(* DefineClipScrollNode item the parent of whose node is resolved.         *)
(***************************************************************************)
C19_EveryVariantSwitches ==
    \A j \in Visits : PaintsNothing(ItemOf(j)) =>
        LET E == Emitted(j) IN
        IF Resolved(j)
        THEN /\ CurrentAfter(j) = PairOf(j)
             /\ StackAfter(j) = <<PairOf(j)>>
             /\ Count(E, PrimitiveOps) = 0
             /\ IF PairOf(j) # before[j].current
                THEN /\ Len(E) >= 2
                     /\ E[1].op = "pop_clip_id"
                     /\ E[2].op = "push_clip_and_scroll_info" /\ E[2].arg = PairOf(j)
                     /\ Switches(E) = 1
                     /\ ItemOf(j).kind \in {"Text", "Image"} => Len(E) = 2
                ELSE /\ Switches(E) = 0
                     /\ Count(E, {"push_clip_and_scroll_info"}) = 0
                     /\ ItemOf(j).kind \in {"Text", "Image"} => E = <<>>
        ELSE /\ j = Len(visited)
             /\ outcome = "panicked" /\ panic = UnreachablePanic
             /\ E = <<>>
             /\ clip_ids = before[j].clip_ids
             /\ current_clip_and_scroll_info = before[j].current

\* a PopStackingContext item that switches the context, then the definition of a
\* node under the root, fatal because the item names the node itself as its scroller
C19_Witness ==
    /\ outcome = "panicked"
    /\ Len(visited) = 2
    /\ ItemOf(1).kind = "PopStackingContext"
    /\ OpsOf(Emitted(1)) = <<"pop_clip_id", "push_clip_and_scroll_info", "pop_stacking_context">>
    /\ ItemOf(2).kind = "DefineClipScrollNode"
    /\ OwnDangling(before[2].clip_ids, ItemOf(2))
    /\ ~ParentDangling(before[2].clip_ids, ItemOf(2))
    /\ Emitted(2) = <<>>

====
